---- MODULE Spec2Model ----
(***************************************************************************)
(* BI Event Mapper (chrome-extension-bfc): the persisted mapping store     *)
(* (bi-events-storage.ts), the in-page selection session injected by the   *)
(* side panel (Popup.tsx: startElementSelection), the side panel's         *)
(* handlers (handleEventClick, handleMessage, handleRemoveMapping) and the *)
(* background relay (background/index.ts).                                 *)
(*                                                                         *)
(* JavaScript values: null is Null, undefined is Undefined.  Strings that  *)
(* the code builds by concatenation are kept as tuples of their parts      *)
(* (a selector "button#cta" is <<"button", "#", "cta">>), so that two      *)
(* built strings are equal exactly when their parts are.                   *)
(***************************************************************************)
EXTENDS Integers, Sequences, FiniteSets, TLC

\* ------------------------------------------------------------------ bounds
\* Most mapping records the store holds (addMapping of a new record is
\* disabled beyond it).
MaxMappings == 2

Null == "null"
Undefined == "undefined"

\* ------------------------------------------------------------- the catalog
defaultEvents ==
  << "button_click", "form_submit", "link_click", "page_scroll",
     "video_play", "file_download", "search_query", "modal_open" >>

\* The catalog entries the user works with in the model.
EventIds == { defaultEvents[1], defaultEvents[2] }

\* Values Date.now() returns.
Timestamps == {1, 2}

\* ------------------------------------------------------ sequence helpers
RECURSIVE SelectSeqBy(_, _)
\* Array.prototype.filter with the predicate given as the set of kept values.
SelectSeqBy(s, keep) ==
  IF s = << >> THEN << >>
  ELSE IF Head(s) \in keep THEN << Head(s) >> \o SelectSeqBy(Tail(s), keep)
       ELSE SelectSeqBy(Tail(s), keep)

Range(s) == { s[i] : i \in DOMAIN s }

\* ------------------------------------------------------------ the document
\* The page the session runs in, in document order: Dom[e].parent is the
\* parentElement (0: none), className the class tokens as written separated
\* by single spaces (<< >>: no class, which a locator keeps as << >> where
\* the code writes undefined), id "" when the element has none,
\* dataHook Null when it has no data-hook attribute, area the width times
\* height of getBoundingClientRect(), text the trimmed textContent (at most 50
\* characters, so slice(0, 50) keeps it).
El(tag, parent, id, dataHook, className, area, text) ==
  [ tag |-> tag, parent |-> parent, id |-> id, dataHook |-> dataHook,
    className |-> className, area |-> area, text |-> text ]

Dom ==
  << El("html", 0, "", Null, << >>, 400, "Buy one more"),
     El("body", 1, "", Null, << >>, 400, "Buy one more"),
     El("section", 2, "", Null, << "page" >>, 120, "Buy one more"),
     El("div", 3, "", "card", << "box" >>, 40, "Buy one"),
     El("button", 4, "cta", Null, << "btn", "primary", "large" >>, 4, "Buy"),
     El("span", 4, "", Null, << >>, 4, "one"),
     El("span", 4, "", Null, << "label", "small", "dim" >>, 1, ""),
     El("div", 3, "", Null, << "row" >>, 30, "more"),
     El("a", 8, "", Null, << >>, 6, "more"),
     El("div", 3, "", Null, << "Card__root" >>, 30, ""),
     El("img", 10, "", Null, << >>, 20, ""),
     El("ul", 3, "", Null, << "md:flex" >>, 24, "more"),
     El("li", 12, "dup", Null, << >>, 6, ""),
     El("li", 12, "dup", Null, << >>, 6, ""),
     El("li", 12, "", "say\"hi", << >>, 6, ""),
     El("li", 12, "", Null, << >>, 6, "more"),
     El("em", 16, "", Null, << >>, 3, "more") >>

Elements == DOMAIN Dom
documentElement == 1
body == 2
\* window.location.href of the page.
PageUrl == "https://shop.example/"

\* Class tokens containing one of Card__, Container__, Wrapper__, __card,
\* __wrapper, __container.
ContainerTokens == { "Card__root" }

parentElement(e) == Dom[e].parent

\* The position of e among all its preceding siblings, whatever their tag.
siblingIndex_AnyTag(e) ==
  1 + Cardinality({ s \in Elements : /\ s < e
                                     /\ Dom[s].parent = Dom[e].parent })

\* The 1-based position of e among its preceding siblings of the same tag.
siblingIndex(e) ==
  1 + Cardinality({ s \in Elements : /\ s < e
                                     /\ Dom[s].parent = Dom[e].parent
                                     /\ Dom[s].tag = Dom[e].tag })

RECURSIVE xpathSteps(_)
\* The while loop of getXPath: /tag[index] for current and its ancestors
\* below document.documentElement, root first.
xpathSteps(current) ==
  IF current = 0 \/ current = documentElement THEN << >>
  ELSE xpathSteps(parentElement(current))
         \o << << Dom[current].tag, siblingIndex(current) >> >>

getXPath(el) ==
  IF Dom[el].id # "" THEN << "//*[@id=", Dom[el].id >>
  ELSE << "/html" >> \o xpathSteps(el)

RECURSIVE chainToRoot(_)
\* el and its ancestors below document.documentElement, root first.
chainToRoot(current) ==
  IF current = 0 \/ current = documentElement THEN << >>
  ELSE chainToRoot(parentElement(current)) \o << current >>

\* One part of getFullPathWithDataHooks: the tag and its first available
\* identifier (id, data-hook, the first two classes).
pathPart(elem) ==
  IF Dom[elem].id # "" THEN << Dom[elem].tag, "#", Dom[elem].id >>
  ELSE IF Dom[elem].dataHook # Null
       THEN << Dom[elem].tag, "[data-hook=", Dom[elem].dataHook >>
  ELSE IF Dom[elem].className # << >>
       THEN << Dom[elem].tag, ".",
               SubSeq(Dom[elem].className, 1,
                      IF Len(Dom[elem].className) < 2
                      THEN Len(Dom[elem].className) ELSE 2) >>
  ELSE << Dom[elem].tag >>

getFullPathWithDataHooks(el) ==
  LET elements == << documentElement >> \o chainToRoot(el)
  IN  [ i \in DOMAIN elements |-> pathPart(elements[i]) ]

\* The data-hooks on the chain, root first, each with its distance from el.
getAllDataHooksInPath(el) ==
  LET chain == chainToRoot(el)
      hooked == SelectSeq(chain, LAMBDA c : Dom[c].dataHook # Null)
      level(c) == Len(chain) - (CHOOSE i \in DOMAIN chain : chain[i] = c)
  IN  [ i \in DOMAIN hooked |->
          [ tagName |-> Dom[hooked[i]].tag,
            dataHook |-> Dom[hooked[i]].dataHook,
            level |-> level(hooked[i]) ] ]

\* The "simple selector": the tag and the first available of #id,
\* [data-hook="v"], and every class token joined by dots.
simpleSelector(el) ==
  IF Dom[el].id # "" THEN << Dom[el].tag, "#", Dom[el].id >>
  ELSE IF Dom[el].dataHook # Null
       THEN << Dom[el].tag, "[data-hook=", Dom[el].dataHook >>
  ELSE IF Dom[el].className # << >>
       THEN << Dom[el].tag, ".", Dom[el].className >>
  ELSE << Dom[el].tag >>

getElementSelector(el) ==
  [ selector |-> simpleSelector(el),
    fullPath |-> getFullPathWithDataHooks(el),
    dataHooksPath |-> getAllDataHooksInPath(el),
    xpath |-> getXPath(el),
    tagName |-> Dom[el].tag,
    className |-> Dom[el].className,
    id |-> IF Dom[el].id # "" THEN Dom[el].id ELSE Undefined,
    dataHook |-> IF Dom[el].dataHook # Null THEN Dom[el].dataHook
                 ELSE Undefined,
    text |-> IF Dom[el].text # "" THEN Dom[el].text ELSE Undefined ]

\* What document.elementFromPoint returns: a page element (kind "element"),
\* nothing ("none"), or the overlay, the banner or the current highlight of
\* the session whose handler runs ("overlay", "banner", "highlight").
Hit(kind, el) == [ kind |-> kind, el |-> el ]
NoTarget == 0

\* currentRect area / originalRect area > 2, in JavaScript numbers: x / 0 is
\* Infinity for x > 0 and 0 / 0 is NaN, which compares false.
areaDiffOver2(current, element) ==
  IF Dom[element].area = 0 THEN Dom[current].area > 0
  ELSE Dom[current].area > 2 * Dom[element].area

isContainerClass(current) ==
  \E i \in DOMAIN Dom[current].className :
    Dom[current].className[i] \in ContainerTokens

RECURSIVE widenWalk(_, _, _)
\* The while loop of getTargetElement under the modifier key.
widenWalk(current, bestCandidate, element) ==
  IF current = 0 \/ current = body THEN bestCandidate
  ELSE IF Dom[current].dataHook # Null THEN current
  ELSE IF isContainerClass(current) THEN current
  ELSE widenWalk(parentElement(current),
                 IF areaDiffOver2(current, element) THEN current
                 ELSE bestCandidate,
                 element)

\* The element the session acts on, NoTarget for null: elementFromPoint gave
\* nothing, or the session's overlay, banner or current highlight.
getTargetElement(hit, useModifier) ==
  IF hit.kind # "element" THEN NoTarget
  ELSE IF useModifier THEN widenWalk(parentElement(hit.el), hit.el, hit.el)
  ELSE hit.el

\* ------------------------------------------------------------ the store
\* BIEventsState, as createStorage is given it.
DefaultState ==
  [ events |-> defaultEvents,
    mappings |-> << >>,
    selectedEventId |-> Null,
    isSelecting |-> FALSE ]

\* selectEvent with the flag set whatever the argument.
selectEvent_AlwaysSelecting(s, eventId) ==
  [ s EXCEPT !.selectedEventId = eventId, !.isSelecting = TRUE ]

selectEvent(s, eventId) ==
  [ s EXCEPT !.selectedEventId = eventId, !.isSelecting = (eventId # Null) ]

\* find comparing the whole element instead of its selector and xpath.
existingMapping_WholeElement(s, eventId, element, url) ==
  LET hits == { i \in DOMAIN s.mappings :
                  /\ s.mappings[i].eventId = eventId
                  /\ s.mappings[i].url = url
                  /\ s.mappings[i].element = element }
  IN  IF hits = {} THEN 0
      ELSE CHOOSE i \in hits : \A j \in hits : i <= j

\* mappings.find(...) of addMapping: the first stored record with the same
\* eventId, url, element.selector and element.xpath, as its index (0: undefined).
existingMapping(s, eventId, element, url) ==
  LET hits == { i \in DOMAIN s.mappings :
                  /\ s.mappings[i].eventId = eventId
                  /\ s.mappings[i].url = url
                  /\ s.mappings[i].element.selector = element.selector
                  /\ s.mappings[i].element.xpath = element.xpath }
  IN  IF hits = {} THEN 0
      ELSE CHOOSE i \in hits : \A j \in hits : i <= j

\* addMapping returning currentState as it is for a duplicate.
addMapping_DuplicateKeepsSelection(s, eventId, element, url, now) ==
  IF existingMapping(s, eventId, element, url) # 0
  THEN s
  ELSE [ s EXCEPT
           !.mappings = Append(@, [ eventId |-> eventId, element |-> element,
                                    url |-> url, timestamp |-> now ]),
           !.selectedEventId = Null,
           !.isSelecting = FALSE ]

\* addMapping appending without looking for a stored record of the same key.
addMapping_AlwaysAppends(s, eventId, element, url, now) ==
  [ s EXCEPT
      !.mappings = Append(@, [ eventId |-> eventId, element |-> element,
                               url |-> url, timestamp |-> now ]),
      !.selectedEventId = Null,
      !.isSelecting = FALSE ]

\* now is the value of Date.now().
addMapping(s, eventId, element, url, now) ==
  IF existingMapping(s, eventId, element, url) # 0
  THEN [ s EXCEPT !.selectedEventId = Null, !.isSelecting = FALSE ]
  ELSE [ s EXCEPT
           !.mappings = Append(@, [ eventId |-> eventId, element |-> element,
                                    url |-> url, timestamp |-> now ]),
           !.selectedEventId = Null,
           !.isSelecting = FALSE ]

\* removeMapping filtering on the event alone.
removeMapping_AnyUrl(s, eventId, url) ==
  [ s EXCEPT !.mappings =
      SelectSeqBy(@, { m \in Range(@) : ~(m.eventId = eventId) }) ]

\* The method declares two parameters.
removeMapping(s, eventId, url) ==
  [ s EXCEPT !.mappings =
      SelectSeqBy(@, { m \in Range(@) : ~(m.eventId = eventId /\ m.url = url) }) ]

\* cancelSelection dropping the stored records as well.
cancelSelection_DropsRecords(s) ==
  [ s EXCEPT !.mappings = << >>, !.selectedEventId = Null, !.isSelecting = FALSE ]

cancelSelection(s) ==
  [ s EXCEPT !.selectedEventId = Null, !.isSelecting = FALSE ]

\* The panel's handler: it passes the panel's current url and the primary
\* selector of the record whose button was pressed as a third argument, which
\* the method does not declare.
handleRemoveMapping(s, currentUrl, eventId, elementSelector) ==
  removeMapping(s, eventId, currentUrl)

\* ------------------------------------------------- the page and its session
\* Most sessions startElementSelection creates in the page.
MaxSessions == 2

\* The three listeners a session registers on document.
ListenerKinds == { "mousemove", "click", "keydown" }

\* A child appended to document.body by the extension: kind is "overlay" (id
\* bi-element-selector-overlay), "banner" (the session's instructions),
\* "highlight" (a session's preview, border 2px solid #3b82f6), "replay" (id
\* bi-element-highlighter) or "errorBanner"; sid is the session that created
\* it (0: none) and el the page element a highlight covers (0: none).
Artifact(kind, sid, el) == [ kind |-> kind, sid |-> sid, el |-> el ]

\* The page context before anything is injected: both window flags are
\* undefined (cleanupRef 0 is null or undefined, otherwise the session whose
\* cleanupSelection the flag holds), artifacts are the appended children in
\* document order, sessions the closures startElementSelection has created,
\* timers the setTimeout callbacks of highlightElement not yet run.
NewPage ==
  [ active |-> FALSE,
    cleanupRef |-> 0,
    listeners |-> {},
    artifacts |-> << >>,
    cursor |-> "",
    sessions |-> << >>,
    timers |-> {} ]

\* The closure of one startElementSelection(eventId) call; emitted lists its
\* chrome.runtime.sendMessage calls.  The banner's text and colour and the
\* overlay's style are written and never read, and are left out.
NewSession(eventId) ==
  [ eventId |-> eventId,
    isSelecting |-> TRUE,
    currentHighlight |-> 0,
    emitted |-> << >> ]

RECURSIVE RemoveFirst(_, _)
\* seq without its first member in the set gone: what Element.remove() does to
\* the one element getElementById or querySelector returns.
RemoveFirst(seq, gone) ==
  IF seq = << >> THEN << >>
  ELSE IF Head(seq) \in gone THEN Tail(seq)
       ELSE << Head(seq) >> \o RemoveFirst(Tail(seq), gone)

OfKind(seq, kinds) == { a \in Range(seq) : a.kind \in kinds }

\* cleanupSelection leaving the three listeners registered.
cleanupSelection_KeepsListeners(p, sid) ==
  LET own == { a \in Range(p.artifacts) :
                 /\ a.sid = sid
                 /\ \/ a.kind \in { "overlay", "banner" }
                    \/ /\ a.kind = "highlight"
                       /\ p.sessions[sid].currentHighlight # 0 }
  IN  [ p EXCEPT
          !.sessions[sid].isSelecting = FALSE,
          !.active = FALSE,
          !.artifacts = SelectSeqBy(@, Range(@) \ own),
          !.cursor = "",
          !.cleanupRef = 0 ]

\* cleanupSelection leaving window._biElementSelectorActive set.
cleanupSelection_KeepsActiveFlag(p, sid) ==
  LET own == { a \in Range(p.artifacts) :
                 /\ a.sid = sid
                 /\ \/ a.kind \in { "overlay", "banner" }
                    \/ /\ a.kind = "highlight"
                       /\ p.sessions[sid].currentHighlight # 0 }
  IN  [ p EXCEPT
          !.sessions[sid].isSelecting = FALSE,
          !.artifacts = SelectSeqBy(@, Range(@) \ own),
          !.listeners = @ \ { << sid, k >> : k \in ListenerKinds },
          !.cursor = "",
          !.cleanupRef = 0 ]

\* cleanupSelection leaving the session's banner in the document.
cleanupSelection_KeepsBanner(p, sid) ==
  LET own == { a \in Range(p.artifacts) :
                 /\ a.sid = sid
                 /\ \/ a.kind = "overlay"
                    \/ /\ a.kind = "highlight"
                       /\ p.sessions[sid].currentHighlight # 0 }
  IN  [ p EXCEPT
          !.sessions[sid].isSelecting = FALSE,
          !.active = FALSE,
          !.artifacts = SelectSeqBy(@, Range(@) \ own),
          !.listeners = @ \ { << sid, k >> : k \in ListenerKinds },
          !.cursor = "",
          !.cleanupRef = 0 ]

\* cleanupSelection of session sid.
cleanupSelection(p, sid) ==
  LET own == { a \in Range(p.artifacts) :
                 /\ a.sid = sid
                 /\ \/ a.kind \in { "overlay", "banner" }
                    \/ /\ a.kind = "highlight"
                       /\ p.sessions[sid].currentHighlight # 0 }
  IN  [ p EXCEPT
          !.sessions[sid].isSelecting = FALSE,
          !.active = FALSE,
          !.artifacts = SelectSeqBy(@, Range(@) \ own),
          !.listeners = @ \ { << sid, k >> : k \in ListenerKinds },
          !.cursor = "",
          !.cleanupRef = 0 ]

\* The cleanup closure startElementSelection runs first.
cleanup(p) ==
  LET a1 == RemoveFirst(p.artifacts, OfKind(p.artifacts, { "overlay" }))
      a2 == RemoveFirst(a1, OfKind(a1, { "replay" }))
      a3 == SelectSeqBy(a2, Range(a2) \ OfKind(a2, { "banner", "errorBanner" }))
      a4 == SelectSeqBy(a3, Range(a3) \ OfKind(a3, { "highlight" }))
      p1 == [ p EXCEPT !.artifacts = a4, !.cursor = "" ]
  IN  IF p1.cleanupRef # 0
      THEN [ cleanupSelection(p1, p1.cleanupRef) EXCEPT !.cleanupRef = 0 ]
      ELSE p1

startElementSelection(p, eventId) ==
  LET p1 == cleanup(p)
      sid == Len(p1.sessions) + 1
  IN  IF p1.active THEN p1
      ELSE [ p1 EXCEPT
               !.active = TRUE,
               !.sessions = Append(@, NewSession(eventId)),
               !.artifacts = @ \o << Artifact("overlay", sid, 0),
                                     Artifact("banner", sid, 0) >>,
               !.cleanupRef = sid,
               !.listeners = @ \cup { << sid, k >> : k \in ListenerKinds },
               !.cursor = "crosshair" ]

createHighlight(p, sid, element) ==
  LET old == { a \in Range(p.artifacts) :
                 /\ a.kind = "highlight" /\ a.sid = sid
                 /\ p.sessions[sid].currentHighlight # 0 }
  IN  [ p EXCEPT
          !.artifacts = SelectSeqBy(@, Range(@) \ old)
                          \o << Artifact("highlight", sid, element) >>,
          !.sessions[sid].currentHighlight = element ]

handleMouseMove(p, sid, hit, isModifierPressed) ==
  IF ~p.sessions[sid].isSelecting THEN p
  ELSE LET element == getTargetElement(hit, isModifierPressed)
       IN  IF element # NoTarget THEN createHighlight(p, sid, element) ELSE p

ElementSelected(eventId, element, url) ==
  [ type |-> "ELEMENT_SELECTED", eventId |-> eventId, element |-> element,
    url |-> url ]

SelectionCancelled == [ type |-> "SELECTION_CANCELLED" ]

sendMessage(p, sid, message) ==
  [ p EXCEPT !.sessions[sid].emitted = Append(@, message) ]

\* handleClick sending the message without tearing the session down.
handleClick_NoTeardown(p, sid, hit, isModifierPressed) ==
  IF ~p.sessions[sid].isSelecting THEN p
  ELSE LET element == getTargetElement(hit, isModifierPressed)
       IN  IF element # NoTarget
           THEN sendMessage(p, sid,
                  ElementSelected(p.sessions[sid].eventId,
                                  getElementSelector(element), PageUrl))
           ELSE p

handleClick(p, sid, hit, isModifierPressed) ==
  IF ~p.sessions[sid].isSelecting THEN p
  ELSE LET element == getTargetElement(hit, isModifierPressed)
       IN  IF element # NoTarget
           THEN cleanupSelection(
                  sendMessage(p, sid,
                    ElementSelected(p.sessions[sid].eventId,
                                    getElementSelector(element), PageUrl)),
                  sid)
           ELSE p

\* handleKeyDown sending the notice without tearing the session down.
handleKeyDown_NoCleanup(p, sid, key) ==
  IF key = "Escape" THEN sendMessage(p, sid, SelectionCancelled) ELSE p

handleKeyDown(p, sid, key) ==
  IF key = "Escape"
  THEN cleanupSelection(sendMessage(p, sid, SelectionCancelled), sid)
  ELSE p

\* The function handleEventClick injects when the armed event is clicked again.
deselectScript(p) ==
  LET a1 == RemoveFirst(p.artifacts, OfKind(p.artifacts, { "overlay" }))
      a2 == RemoveFirst(a1, OfKind(a1, { "banner", "errorBanner" }))
      a3 == RemoveFirst(a2, OfKind(a2, { "replay" }))
  IN  [ p EXCEPT !.artifacts = a3, !.cursor = "" ]

RECURSIVE dispatch(_, _, _, _, _)
\* One DOM event delivered to the listeners of its kind, in the order they
\* were registered; a listener removed by an earlier one is not called.
dispatch(p, kind, sid, arg1, arg2) ==
  IF sid > Len(p.sessions) THEN p
  ELSE LET p1 == IF << sid, kind >> \notin p.listeners THEN p
                 ELSE IF kind = "mousemove" THEN handleMouseMove(p, sid, arg1, arg2)
                 ELSE IF kind = "click" THEN handleClick(p, sid, arg1, arg2)
                 ELSE handleKeyDown(p, sid, arg1)
       IN  dispatch(p1, kind, sid + 1, arg1, arg2)

\* ------------------------------------------------------- highlight replay
\* Values that make a CSS selector built around them a syntax error (a class
\* token with a colon reads as an unknown pseudo-class, a double quote ends a
\* quoted attribute value early), and those that do so for an XPath.
CssSyntaxErrorTokens == { "md:flex", "say\"hi" }
XPathSyntaxErrorTokens == { "say\"hi" }

\* The outcome of a lookup that throws.
Throws == -1

\* The first of a set of elements in document order, 0 (null) for none.
First(S) == IF S = {} THEN 0 ELSE CHOOSE e \in S : \A f \in S : e <= f

\* getElementById returning the element after the one that carries the id.
getElementById_Following(id) ==
  LET e == First({ f \in Elements : Dom[f].id = id })
  IN  IF e = 0 \/ e + 1 \notin Elements THEN 0 ELSE e + 1

getElementById(id) == First({ e \in Elements : Dom[e].id = id })

\* document.querySelector of a selector << tag >> or << tag, kind, value >>
\* (tag "" when the selector names no tag): the first matching element, null,
\* or a SyntaxError.
querySelector(sel) ==
  LET bad == /\ Len(sel) = 3
             /\ IF sel[2] = "."
                THEN \E i \in DOMAIN sel[3] : sel[3][i] \in CssSyntaxErrorTokens
                ELSE sel[3] \in CssSyntaxErrorTokens
      matches(e) ==
        /\ sel[1] = "" \/ Dom[e].tag = sel[1]
        /\ \/ Len(sel) = 1
           \/ /\ sel[2] = "#"
              /\ Dom[e].id = sel[3]
           \/ /\ sel[2] = "[data-hook="
              /\ Dom[e].dataHook = sel[3]
           \/ /\ sel[2] = "."
              /\ \A i \in DOMAIN sel[3] :
                   \E j \in DOMAIN Dom[e].className :
                     Dom[e].className[j] = sel[3][i]
  IN  IF bad THEN Throws ELSE First({ e \in Elements : matches(e) })

\* The k-th child of node with the tag, 0 when there is none.
childStep(node, tag, k) ==
  LET c == { e \in Elements : Dom[e].parent = node /\ Dom[e].tag = tag }
  IN  IF k \in 1 .. Cardinality(c)
      THEN CHOOSE e \in c : Cardinality({ f \in c : f <= e }) = k
      ELSE 0

RECURSIVE walkSteps(_, _)
walkSteps(node, steps) ==
  IF node = 0 \/ steps = << >> THEN node
  ELSE walkSteps(childStep(node, Head(steps)[1], Head(steps)[2]), Tail(steps))

\* document.evaluate(xpath, document, null, FIRST_ORDERED_NODE_TYPE, null)
\* .singleNodeValue for the two shapes getXPath writes.
evaluate(xpath) ==
  IF xpath[1] = "//*[@id="
  THEN IF xpath[2] \in XPathSyntaxErrorTokens THEN Throws
       ELSE First({ e \in Elements : Dom[e].id = xpath[2] })
  ELSE IF xpath[1] = "/html" THEN walkSteps(documentElement, Tail(xpath))
  ELSE Throws

\* The four lookups of highlightElement in the order the code writes them.
Strategies == << "id", "dataHook", "selector", "xpath" >>

\* Whether the locator's field of strategy k is truthy.
hasField(loc, k) ==
  IF k = 1 THEN loc.id \notin { Undefined, "" }
  ELSE IF k = 2 THEN loc.dataHook \notin { Undefined, "" }
  ELSE IF k = 3 THEN loc.selector # << >>
  ELSE loc.xpath # << >>

lookup(loc, k) ==
  IF k = 1 THEN getElementById(loc.id)
  ELSE IF k = 2 THEN querySelector(<< "", "[data-hook=", loc.dataHook >>)
  ELSE IF k = 3 THEN querySelector(loc.selector)
  ELSE evaluate(loc.xpath)

\* try { targetElement = result } catch {} letting the exception through.
caught_Propagates(result, targetElement) == result

\* try { targetElement = result } catch { console.warn }: a lookup that
\* throws assigns nothing.
caught(result, targetElement) ==
  IF result = Throws THEN targetElement ELSE result

RECURSIVE resolveFrom_SelectorBeforeDataHook(_, _, _)
\* The lookups with the CSS selector tried before the data-hook.
resolveFrom_SelectorBeforeDataHook(loc, k, r) ==
  IF k > Len(Strategies) THEN r
  ELSE LET j == IF k = 2 THEN 3 ELSE IF k = 3 THEN 2 ELSE k
       IN  resolveFrom_SelectorBeforeDataHook(loc, k + 1,
             IF r.targetElement = 0 /\ hasField(loc, j)
             THEN [ targetElement |-> caught(lookup(loc, j), r.targetElement),
                    tried |-> Append(r.tried, Strategies[j]),
                    warned |-> IF lookup(loc, j) = Throws
                               THEN Append(r.warned, Strategies[j])
                               ELSE r.warned ]
             ELSE r)

RECURSIVE resolveFrom(_, _, _)
\* The if statements of highlightElement from the k-th on: targetElement is
\* the element found so far (0: null), tried the lookups made, warned the
\* console.warn calls.
resolveFrom(loc, k, r) ==
  IF k > Len(Strategies) THEN r
  ELSE resolveFrom(loc, k + 1,
         IF r.targetElement = 0 /\ hasField(loc, k)
         THEN [ targetElement |-> IF k = 1 THEN lookup(loc, k)
                                  ELSE caught(lookup(loc, k), r.targetElement),
                tried |-> Append(r.tried, Strategies[k]),
                warned |-> IF lookup(loc, k) = Throws
                           THEN Append(r.warned, Strategies[k])
                           ELSE r.warned ]
         ELSE r)

resolve(loc) ==
  resolveFrom(loc, 1, [ targetElement |-> 0, tried |-> << >>, warned |-> << >> ])

\* A setTimeout callback of the call-th highlightElement call not yet run,
\* due that many milliseconds after the call.
Timer(call, kind, due) == [ call |-> call, kind |-> kind, due |-> due ]

\* The call-th highlightElement(elementSelector) in the page.  The replay
\* highlight and the error banner carry the call as -call where a session's
\* artifact carries the session; the highlight's rectangle and the style
\* element with its keyframes are written and never read, and are left out.
highlightElement(p, elementSelector, call) ==
  LET p1 == [ p EXCEPT !.artifacts = RemoveFirst(@, OfKind(@, { "replay" })) ]
      targetElement == resolve(elementSelector).targetElement
  IN  IF targetElement = 0
      THEN [ p1 EXCEPT
               !.artifacts = Append(@, Artifact("errorBanner", -call, 0)),
               !.timers = @ \cup { Timer(call, "removeError", 3000) } ]
      ELSE [ p1 EXCEPT !.timers = @ \cup { Timer(call, "create", 500) } ]

\* The callback of timer tm.
runTimer(p, tm) ==
  IF tm.kind = "create"
  THEN [ p EXCEPT
           !.artifacts = Append(@, Artifact("replay", -tm.call, 0)),
           !.timers = (@ \ { tm }) \cup { Timer(tm.call, "remove", 3500) } ]
  ELSE IF tm.kind = "remove"
  THEN [ p EXCEPT
           !.artifacts = SelectSeqBy(@, Range(@) \ { Artifact("replay", -tm.call, 0) }),
           !.timers = @ \ { tm } ]
  ELSE [ p EXCEPT
           !.artifacts = SelectSeqBy(@, Range(@) \ { Artifact("errorBanner", -tm.call, 0) }),
           !.timers = @ \ { tm } ]

\* Timers run in the order they fall due: one set no later by a call made no
\* later runs first.
mayRun(p, tm) ==
  /\ tm \in p.timers
  /\ \A o \in p.timers \ { tm } : ~(o.call <= tm.call /\ o.due <= tm.due)

\* ------------------------------------------------------------------ state
\* Most handleEventClick calls in progress at once.
MaxTasks == 1

VARIABLES
  store,          \* the persisted aggregate (BIEventsState)
  lastOp,         \* the store method called last through the store's API
  page,           \* the active tab's page context
  tasks,          \* the handleEventClick calls in progress, oldest first
  toBackground,   \* messages on their way to the background listener
  toPanel,        \* messages on their way to the panel's handleMessage
  sessionStart,   \* the records stored when the latest session started
  captured,       \* the latest element picked under the pointer and its locator
  replayed        \* the highlightElement calls made and the latest one's result

vars ==
  << store, lastOp, page, tasks, toBackground, toPanel, sessionStart,
     captured, replayed >>

systemVars ==
  << page, tasks, toBackground, toPanel, sessionStart, captured, replayed >>

NoOp == [ op |-> "none", d |-> 0 ]
\* A call of a store method and the change it made to the number of records.
Op(name, before, after) ==
  [ op |-> name, d |-> Len(after.mappings) - Len(before.mappings) ]

\* Locators the store's API is called with: same selector and xpath with
\* another text, same selector with another xpath, same xpath with another
\* selector.
Loc(selector, xpath, text) ==
  [ selector |-> selector, fullPath |-> << >>, dataHooksPath |-> << >>,
    xpath |-> xpath, tagName |-> selector[1], className |-> << >>,
    id |-> Undefined, dataHook |-> Undefined, text |-> text ]

ApiLocators ==
  { Loc(<< "span" >>, << "/html", << "body", 1 >>, << "span", 1 >> >>, "one"),
    Loc(<< "span" >>, << "/html", << "body", 1 >>, << "span", 1 >> >>, "uno"),
    Loc(<< "span" >>, << "/html", << "body", 1 >>, << "span", 2 >> >>, "one"),
    Loc(<< "b" >>, << "/html", << "body", 1 >>, << "span", 1 >> >>, "one") }

\* removeMapping called without a third argument.
NoSelector == << >>

ApiUrls == { PageUrl, "https://shop.example/cart" }

NoSessionStart == [ sid |-> 0, mappings |-> << >>, foreign |-> FALSE ]

\* A locator as the store hands it to highlightElement.
StoredLoc(id, dataHook, selector, xpath) ==
  [ selector |-> selector, fullPath |-> << >>, dataHooksPath |-> << >>,
    xpath |-> xpath, tagName |-> "", className |-> << >>,
    id |-> id, dataHook |-> dataHook, text |-> Undefined ]

NoLocator == StoredLoc(Undefined, Undefined, << >>, << >>)

\* Nothing picked yet.
NoCapture ==
  [ hit |-> Hit("none", 0), useModifier |-> FALSE, target |-> NoTarget,
    locator |-> NoLocator ]

\* No highlightElement call made yet.
NoReplay == [ calls |-> 0, locator |-> NoLocator, result |-> resolve(NoLocator) ]

Init ==
  /\ store = DefaultState
  /\ lastOp = NoOp
  /\ page = NewPage
  /\ tasks = << >>
  /\ toBackground = {}
  /\ toPanel = {}
  /\ sessionStart = NoSessionStart
  /\ captured = NoCapture
  /\ replayed = NoReplay

\* --------------------------------------------- the store's API, called directly
SelectEventCall ==
  \E eventId \in EventIds \cup { Null } :
    /\ store' = selectEvent(store, eventId)
    /\ lastOp' = Op("selectEvent", store, store')
    /\ UNCHANGED systemVars

AddMappingCall ==
  \E eventId \in EventIds, element \in ApiLocators, url \in ApiUrls,
     now \in Timestamps :
    /\ \/ Len(store.mappings) < MaxMappings
       \/ existingMapping(store, eventId, element, url) # 0
    /\ store' = addMapping(store, eventId, element, url, now)
    /\ lastOp' = Op("addMapping", store, store')
    /\ UNCHANGED systemVars

RemoveMappingCall ==
  \E eventId \in EventIds, url \in ApiUrls,
     elementSelector \in { l.selector : l \in ApiLocators } \cup { NoSelector } :
    /\ store' = handleRemoveMapping(store, url, eventId, elementSelector)
    /\ lastOp' = Op("removeMapping", store, store')
    /\ UNCHANGED systemVars

CancelSelectionCall ==
  /\ store' = cancelSelection(store)
  /\ lastOp' = Op("cancelSelection", store, store')
  /\ UNCHANGED systemVars

StoreNext ==
  \/ SelectEventCall
  \/ AddMappingCall
  \/ RemoveMappingCall
  \/ CancelSelectionCall

\* The store driven through its four methods with any arguments.
StoreSpec == Init /\ [][StoreNext]_vars

\* ------------------------------------------------------------- the system
\* The page elements the pointer visits.
PointerElements == { 5, 7 }

\* A session that still acts on clicks.
Armed(p, sid) ==
  /\ sid \in DOMAIN p.sessions
  /\ p.sessions[sid].isSelecting
  /\ << sid, "click" >> \in p.listeners

ArmedSessions(p) == { sid \in DOMAIN p.sessions : Armed(p, sid) }

\* What can be under the pointer: a page element, nothing, or an artifact that
\* is in the document and belongs to a session whose listeners are registered.
PointerHits(p) ==
  { Hit("element", e) : e \in PointerElements }
    \cup { Hit("none", 0) }
    \cup { Hit(a.kind, a.sid) :
             a \in { b \in OfKind(p.artifacts, { "overlay", "banner", "highlight" }) :
                       << b.sid, "click" >> \in p.listeners } }

\* A message in flight: the n-th message session sid sent, as sent by the
\* page ("direct") or as sent again by the background ("relay").
Envelope(msg, sid, n, hop) == [ msg |-> msg, sid |-> sid, n |-> n, hop |-> hop ]

\* The messages the sessions of q sent that those of p had not.
Sent(p, q) ==
  UNION { { Envelope(q.sessions[sid].emitted[n], sid, n, "direct") :
              n \in ((IF sid \in DOMAIN p.sessions
                      THEN Len(p.sessions[sid].emitted) ELSE 0) + 1)
                    .. Len(q.sessions[sid].emitted) } :
          sid \in DOMAIN q.sessions }

\* The page once the engine has collected the closures nothing refers to: a
\* session with no listener registered and not held by the window flag can
\* never run again, and its currentHighlight reference is dropped.
Collected(p) ==
  [ p EXCEPT !.sessions =
      [ sid \in DOMAIN @ |->
          IF \/ p.cleanupRef = sid
             \/ \E k \in ListenerKinds : << sid, k >> \in p.listeners
          THEN @[sid]
          ELSE [ @[sid] EXCEPT !.currentHighlight = 0 ] ] ]

\* A DOM event in the page: chrome.runtime.sendMessage from the page reaches
\* the background's listener and the panel's.
PageEvent(kind, arg1, arg2) ==
  /\ page' = Collected(dispatch(page, kind, 1, arg1, arg2))
  /\ toBackground' = toBackground \cup Sent(page, page')
  /\ toPanel' = toPanel \cup Sent(page, page')
  /\ UNCHANGED << store, lastOp, tasks, sessionStart, captured, replayed >>

PageMouseMove ==
  \E hit \in PointerHits(page), isModifierPressed \in BOOLEAN :
    PageEvent("mousemove", hit, isModifierPressed)

PageClickAt(hit, isModifierPressed) ==
  PageEvent("click", hit, isModifierPressed)

PageClick ==
  \E hit \in PointerHits(page), isModifierPressed \in BOOLEAN :
    PageClickAt(hit, isModifierPressed)

PageKeyDownOf(key) == PageEvent("keydown", key, FALSE)

PageKeyDown == \E key \in { "Escape", "Enter" } : PageKeyDownOf(key)

\* The background's listener sending every message again, whatever its type.
relay_EveryType(env) == { [ env EXCEPT !.hop = "relay" ] }

\* What the background's onMessage listener sends for a message it is called
\* with.
relay(env) ==
  IF env.msg.type = "ELEMENT_SELECTED"
  THEN { [ env EXCEPT !.hop = "relay" ] }
  ELSE IF env.msg.type = "SELECTION_CANCELLED"
  THEN { [ env EXCEPT !.hop = "relay" ] }
  ELSE {}

\* The background's onMessage listener is called with a message: what it
\* sends with chrome.runtime.sendMessage reaches the panel's listener, not the
\* background's own and not the page, which has none.
BackgroundRelayOf(env) ==
  /\ env \in toBackground
  /\ toBackground' = toBackground \ { env }
  /\ toPanel' = toPanel \cup relay(env)
  /\ UNCHANGED << store, lastOp, page, tasks, sessionStart, captured, replayed >>

BackgroundRelay == \E env \in toBackground : BackgroundRelayOf(env)

\* A runtime message of a type the listeners do not know, sent by the panel's
\* own context: the background's onMessage listener is called with whatever
\* is sent, the sender's own listener is not (sid 0: sent by no session).
OtherMessage == [ type |-> "PANEL_READY" ]

PanelSendsOther ==
  /\ toBackground' = toBackground \cup { Envelope(OtherMessage, 0, 1, "direct") }
  /\ UNCHANGED << store, lastOp, page, tasks, toPanel, sessionStart,
                  captured, replayed >>

\* sessionStart after a step of the panel that took the records from before
\* to after on behalf of session sid (0: of the user).
Disturbed(before, after, sid) ==
  IF after.mappings # before.mappings /\ sid # sessionStart.sid
  THEN [ sessionStart EXCEPT !.mappings = << >>, !.foreign = TRUE ]
  ELSE sessionStart

\* The panel's handleMessage.
handleMessage(s, message, now) ==
  IF message.type = "ELEMENT_SELECTED"
  THEN addMapping(s, message.eventId, message.element, message.url, now)
  ELSE IF message.type = "SELECTION_CANCELLED"
  THEN cancelSelection(s)
  ELSE s

PanelHandleMessageOf(env) ==
  /\ env \in toPanel
  /\ \E now \in Timestamps : store' = handleMessage(store, env.msg, now)
  /\ Len(store'.mappings) <= MaxMappings
  /\ toPanel' = toPanel \ { env }
  /\ sessionStart' = Disturbed(store, store', env.sid)
  /\ UNCHANGED << lastOp, page, tasks, toBackground, captured, replayed >>

PanelHandleMessage == \E env \in toPanel : PanelHandleMessageOf(env)

\* A handleEventClick(eventId) call in progress: selectedEventId is the
\* panel's selectedEventId the call was rendered with, pc where it waits.
Task(pc, eventId, selectedEventId) ==
  [ pc |-> pc, eventId |-> eventId, selectedEventId |-> selectedEventId ]

\* handleEventClick up to its first wait: the event is the armed one (deselect)
\* or another (cancel, then wait 100 ms).
PanelClickEvent ==
  \E eventId \in EventIds :
    /\ Len(tasks) < MaxTasks
    /\ store' = cancelSelection(store)
    /\ IF store.selectedEventId = eventId
       THEN tasks' = Append(tasks, Task("deselect", eventId, store.selectedEventId))
       ELSE /\ Len(page.sessions)
                 + Cardinality({ i \in DOMAIN tasks : tasks[i].pc # "deselect" })
               < MaxSessions
            /\ tasks' = Append(tasks, Task("wait", eventId, store.selectedEventId))
    /\ UNCHANGED << lastOp, page, toBackground, toPanel, sessionStart, captured, replayed >>

RemoveAt(seq, i) == SubSeq(seq, 1, i - 1) \o SubSeq(seq, i + 1, Len(seq))

\* handleEventClick after the 100 ms: selectEvent.
PanelRearmSelect ==
  \E i \in DOMAIN tasks :
    /\ tasks[i].pc = "wait"
    /\ store' = selectEvent(store, tasks[i].eventId)
    /\ tasks' = [ tasks EXCEPT ![i].pc = "inject" ]
    /\ UNCHANGED << lastOp, page, toBackground, toPanel, sessionStart, captured, replayed >>

\* chrome.scripting.executeScript of startElementSelection in the active tab.
PanelInjectStartOf(i) ==
  /\ i \in DOMAIN tasks
  /\ tasks[i].pc = "inject"
  /\ page' = Collected(startElementSelection(page, tasks[i].eventId))
  /\ tasks' = RemoveAt(tasks, i)
  /\ sessionStart' =
       IF Len(page'.sessions) > Len(page.sessions)
       THEN [ sid |-> Len(page'.sessions), mappings |-> store.mappings,
              foreign |-> FALSE ]
       ELSE sessionStart
  /\ UNCHANGED << store, lastOp, toBackground, toPanel, captured, replayed >>

PanelInjectStart == \E i \in DOMAIN tasks : PanelInjectStartOf(i)

\* chrome.scripting.executeScript of the deselect function in the active tab.
PanelInjectDeselect ==
  \E i \in DOMAIN tasks :
    /\ tasks[i].pc = "deselect"
    /\ page' = deselectScript(page)
    /\ tasks' = RemoveAt(tasks, i)
    /\ UNCHANGED << store, lastOp, toBackground, toPanel, sessionStart, captured, replayed >>

\* The Cancel Selection button, rendered while isSelecting.
PanelCancelButton ==
  /\ store.isSelecting
  /\ store' = cancelSelection(store)
  /\ UNCHANGED << lastOp, page, tasks, toBackground, toPanel, sessionStart, captured, replayed >>

\* The remove button of a record listed for the panel's current url.
PanelRemoveMapping ==
  \E i \in DOMAIN store.mappings :
    /\ store.mappings[i].url = PageUrl
    /\ store' = handleRemoveMapping(store, PageUrl, store.mappings[i].eventId,
                                    store.mappings[i].element.selector)
    /\ sessionStart' = Disturbed(store, store', 0)
    /\ UNCHANGED << lastOp, page, tasks, toBackground, toPanel, captured, replayed >>

Next ==
  \/ PanelClickEvent
  \/ PanelRearmSelect
  \/ PanelInjectStart
  \/ PanelInjectDeselect
  \/ PanelCancelButton
  \/ PanelRemoveMapping
  \/ PanelHandleMessage
  \/ BackgroundRelay
  \/ PanelSendsOther
  \/ PageMouseMove
  \/ PageClick
  \/ PageKeyDown

\* The panel, the page of the active tab, the background and the store.
Spec == Init /\ [][Next]_vars

\* --------------------------------------------- capture and highlight replay
\* Most highlightElement calls made in the page.
MaxReplays == 2

\* Locators stored for a page that has changed since, or edited by hand: the
\* id gone; a data-hook, a selector and an XPath that now name three
\* elements; an id that is found with everything else pointing elsewhere; a
\* data-hook, a selector and an XPath that are all syntax errors; a broken
\* data-hook before a good selector; an XPath alone; nothing that matches.
StaleLocators ==
  { StoredLoc("gone", Undefined, << "button", "#", "gone" >>,
              << "//*[@id=", "gone" >>),
    StoredLoc(Undefined, "card", << "span" >>,
              << "/html", << "body", 1 >>, << "section", 1 >>, << "div", 2 >> >>),
    StoredLoc("cta", "card", << "span" >>,
              << "/html", << "body", 1 >>, << "section", 1 >>, << "div", 2 >> >>),
    StoredLoc(Undefined, "say\"hi", << "ul", ".", << "md:flex" >> >>,
              << "//*[@id=", "say\"hi" >>),
    StoredLoc(Undefined, "say\"hi", << "a" >>, << >>),
    StoredLoc("", "", << >>,
              << "/html", << "body", 1 >>, << "section", 1 >>, << "div", 3 >>,
                 << "img", 1 >> >>),
    StoredLoc(Undefined, Undefined, << "table" >>,
              << "/html", << "body", 1 >>, << "table", 1 >> >>) }

\* What a session's handler computes for the pointer over an element, or
\* over nothing, with or without the modifier key: the target and its locator.
CaptureCall ==
  \E hit \in { Hit("element", e) : e \in Elements } \cup { Hit("none", 0) },
     useModifier \in BOOLEAN :
    LET element == getTargetElement(hit, useModifier)
    IN  /\ captured' = [ hit |-> hit, useModifier |-> useModifier,
                         target |-> element,
                         locator |-> IF element # NoTarget
                                     THEN getElementSelector(element)
                                     ELSE NoLocator ]
        /\ UNCHANGED << store, lastOp, page, tasks, toBackground, toPanel,
                        sessionStart, replayed >>

\* handleHighlightElement: highlightElement injected with the locator just
\* captured on this page or with a stored one.
HighlightElementCall ==
  \E elementSelector \in
       (IF captured.target # NoTarget THEN { captured.locator } ELSE {})
         \cup StaleLocators :
    /\ replayed.calls < MaxReplays
    /\ page' = highlightElement(page, elementSelector, replayed.calls + 1)
    /\ replayed' = [ calls |-> replayed.calls + 1,
                     locator |-> elementSelector,
                     result |-> resolve(elementSelector) ]
    /\ UNCHANGED << store, lastOp, tasks, toBackground, toPanel, sessionStart,
                    captured >>

\* A setTimeout callback of highlightElement runs.
PageTimerFires ==
  \E tm \in page.timers :
    /\ mayRun(page, tm)
    /\ page' = runTimer(page, tm)
    /\ UNCHANGED << store, lastOp, tasks, toBackground, toPanel, sessionStart,
                    captured, replayed >>

ReplayNext ==
  \/ CaptureCall
  \/ HighlightElementCall
  \/ PageTimerFires

\* Elements picked on the page and locators replayed on it.
ReplaySpec == Init /\ [][ReplayNext]_vars

\* ------------------------------------------------------ the store's claims
\* Two records with the same eventId, url, element.selector and element.xpath.
SameKey(m, n) ==
  /\ m.eventId = n.eventId
  /\ m.url = n.url
  /\ m.element.selector = n.element.selector
  /\ m.element.xpath = n.element.xpath

\* The members of old that the test keeps are exactly new, in old's order.
KeptInOrder(old, new, Keep(_)) ==
  LET kept == { i \in DOMAIN old : Keep(old[i]) }
      rank(i) == Cardinality({ j \in kept : j <= i })
  IN  /\ Len(new) = Cardinality(kept)
      /\ \A i \in kept : new[rank(i)] = old[i]

\* C1: in every state reached from the default state by selectEvent,
\* addMapping, removeMapping and cancelSelection calls, isSelecting is true
\* exactly when selectedEventId is not null.
C1_SelectingIffSelected ==
  store.isSelecting = (store.selectedEventId # Null)

C1_Witness ==
  /\ lastOp.op = "selectEvent"
  /\ store.isSelecting
  /\ store.selectedEventId \in EventIds

\* C5: no two stored records agree on eventId, url, element.selector and
\* element.xpath, so an addMapping call repeating a stored key adds nothing.
C5_NoDuplicateMappings ==
  \A i, j \in DOMAIN store.mappings :
    i # j => ~SameKey(store.mappings[i], store.mappings[j])

C5_Witness ==
  /\ lastOp.op = "addMapping"
  /\ lastOp.d = 0
  /\ Len(store.mappings) >= 1

\* C6, as claimed: removeMapping called with an eventId, a url and a primary
\* selector deletes the records matching all three and keeps every other
\* record, one with the same eventId and url and another selector included.
C6_RemovesOnlyMatchingSelector ==
  [][ \A eventId \in EventIds, url \in ApiUrls,
        elementSelector \in { l.selector : l \in ApiLocators } :
        ( /\ lastOp'.op = "removeMapping"
          /\ store' = handleRemoveMapping(store, url, eventId, elementSelector) )
        => KeptInOrder(store.mappings, store'.mappings,
                       LAMBDA m : ~( /\ m.eventId = eventId
                                     /\ m.url = url
                                     /\ m.element.selector = elementSelector )) ]_vars

\* C7: removeMapping(eventId, url) removes the records with that eventId and
\* url and no other: the others stay, unchanged and in order, selection state
\* and the catalog are unchanged, and when no record matches nothing changes.
C7_RemoveMappingFrame ==
  [][ \A eventId \in EventIds, url \in ApiUrls :
        ( /\ lastOp'.op = "removeMapping"
          /\ store' = handleRemoveMapping(store, url, eventId, NoSelector) )
        => /\ KeptInOrder(store.mappings, store'.mappings,
                          LAMBDA m : m.eventId # eventId \/ m.url # url)
           /\ store'.selectedEventId = store.selectedEventId
           /\ store'.isSelecting = store.isSelecting
           /\ store'.events = store.events
           /\ ( (\A i \in DOMAIN store.mappings :
                   store.mappings[i].eventId # eventId
                     \/ store.mappings[i].url # url)
                => store' = store ) ]_vars

C7_Witness ==
  /\ lastOp.op = "removeMapping"
  /\ lastOp.d < 0
  /\ Len(store.mappings) >= 1

\* C8: addMapping(eventId, element, url) leaves selection state at (null,
\* false); with no stored record of the same key it appends one record with
\* that eventId, element and url after the stored ones, which stay as they
\* were; with such a record stored the records are unchanged.
C8_AddMappingEffect ==
  [][ \A eventId \in EventIds, element \in ApiLocators, url \in ApiUrls,
        now \in Timestamps :
        ( /\ lastOp'.op = "addMapping"
          /\ store' = addMapping(store, eventId, element, url, now) )
        => LET new == [ eventId |-> eventId, element |-> element, url |-> url ]
               n == Len(store.mappings)
           IN  /\ store'.selectedEventId = Null
               /\ store'.isSelecting = FALSE
               /\ IF \E i \in DOMAIN store.mappings :
                       SameKey(store.mappings[i], new)
                  THEN store'.mappings = store.mappings
                  ELSE /\ Len(store'.mappings) = n + 1
                       /\ SubSeq(store'.mappings, 1, n) = store.mappings
                       /\ store'.mappings[n + 1].eventId = eventId
                       /\ store'.mappings[n + 1].element = element
                       /\ store'.mappings[n + 1].url = url ]_vars

C8_Witness ==
  /\ lastOp.op = "addMapping"
  /\ lastOp.d = 1
  /\ Len(store.mappings) >= 2

\* ----------------------------------------------------- the system's claims
ListenersOf(p, sid) == { k \in ListenerKinds : << sid, k >> \in p.listeners }
ArtifactsOf(p, sid) == { i \in DOMAIN p.artifacts : p.artifacts[i].sid = sid }
TornDown(p, sid) ==
  /\ ListenersOf(p, sid) = {}
  /\ ArtifactsOf(p, sid) = {}
  /\ ~p.sessions[sid].isSelecting

RECURSIVE SelfAndAncestors(_)
SelfAndAncestors(e) ==
  IF e = 0 THEN {} ELSE { e } \cup SelfAndAncestors(parentElement(e))

\* C2, as claimed: while handleEventClick(B) re-arms from an armed event A
\* (cancelSelection, the 100 ms wait, selectEvent(B), the injection), no
\* ELEMENT_SELECTED of A arriving at the panel records a mapping, and no
\* message of the old session arriving after selectEvent(B) takes
\* selectedEventId away from B.
C2_RearmShutsOutOldSession ==
  [][ \A env \in toPanel, i \in DOMAIN tasks :
        ( /\ PanelHandleMessageOf(env)
          /\ tasks[i].pc \in { "wait", "inject" }
          /\ tasks[i].selectedEventId # Null )
        => /\ ( /\ env.msg.type = "ELEMENT_SELECTED"
                /\ env.msg.eventId = tasks[i].selectedEventId )
              => store'.mappings = store.mappings
           /\ ( /\ tasks[i].pc = "inject"
                /\ store.selectedEventId = tasks[i].eventId )
              => store'.selectedEventId = tasks[i].eventId ]_vars

\* C3, as claimed: a cancellation from the panel (the armed event clicked
\* again, whose deselect function has run, or the Cancel Selection button)
\* leaves every session that was armed without listeners and without overlay,
\* banner and highlight, so that no later click can emit.
C3_PanelCancelTearsDown ==
  [][ (PanelCancelButton \/ PanelInjectDeselect)
        => \A sid \in ArmedSessions(page) : TornDown(page', sid) ]_vars

\* C4: at most one session is live (one set of mousemove, click and keydown
\* handlers, one overlay), and the cleanup that startElementSelection runs
\* first leaves no listener and no session artifact behind, so the new session
\* registers on a page the old one has left.
C4_AtMostOneLiveSession ==
  /\ Cardinality({ sid \in DOMAIN page.sessions : ListenersOf(page, sid) # {} }) <= 1
  /\ \A sid \in DOMAIN page.sessions :
       ListenersOf(page, sid) \in { {}, ListenerKinds }
  /\ Cardinality({ i \in DOMAIN page.artifacts :
                     page.artifacts[i].kind = "overlay" }) <= 1
  /\ Cardinality(ArmedSessions(page)) <= 1
  /\ LET p1 == cleanup(page)
     IN  /\ p1.listeners = {}
         /\ OfKind(p1.artifacts, { "overlay", "banner", "highlight" }) = {}
         /\ ArmedSessions(p1) = {}

\* A second session armed after the first was superseded while armed.
C4_Witness ==
  /\ Len(page.sessions) = 2
  /\ Armed(page, 2)
  /\ page.sessions[1].emitted = << >>
  /\ TornDown(page, 1)
  /\ ArtifactsOf(page, 2) # {}

\* C9: Escape pressed while a session is armed makes it send
\* SELECTION_CANCELLED and end; a session that sent it sends nothing else,
\* before or after; the panel handling the message leaves selection state at
\* (null, false) and the records as they were, which are the records stored
\* when the session started unless the user or another session's message
\* changed them meanwhile.
C9_EscapeCancels ==
  /\ [] ( \A sid \in DOMAIN page.sessions :
            (\E n \in DOMAIN page.sessions[sid].emitted :
               page.sessions[sid].emitted[n].type = "SELECTION_CANCELLED")
            => /\ Len(page.sessions[sid].emitted) = 1
               /\ ~Armed(page, sid)
               /\ ListenersOf(page, sid) = {} )
  /\ [][ /\ \A sid \in ArmedSessions(page) :
              PageKeyDownOf("Escape")
              => /\ page'.sessions[sid].emitted =
                      Append(page.sessions[sid].emitted, SelectionCancelled)
                 /\ Envelope(SelectionCancelled, sid,
                             Len(page'.sessions[sid].emitted), "direct")
                      \in toPanel' \cap toBackground'
         /\ \A env \in toPanel :
              ( /\ PanelHandleMessageOf(env)
                /\ env.msg.type = "SELECTION_CANCELLED" )
              => /\ store'.selectedEventId = Null
                 /\ store'.isSelecting = FALSE
                 /\ store'.mappings = store.mappings
                 /\ ( (env.sid = sessionStart.sid /\ ~sessionStart.foreign)
                      => store'.mappings = sessionStart.mappings ) ]_vars

\* The latest session was cancelled by Escape with a record stored, and both
\* copies of its notice have been handled.
C9_Witness ==
  /\ sessionStart.sid \in DOMAIN page.sessions
  /\ ~sessionStart.foreign
  /\ sessionStart.mappings # << >>
  /\ page.sessions[sessionStart.sid].emitted = << SelectionCancelled >>
  /\ \A env \in toPanel \cup toBackground : env.sid # sessionStart.sid
  /\ store.mappings = sessionStart.mappings
  /\ store.selectedEventId = Null

\* C10: a click of an armed session on a page element sends one
\* ELEMENT_SELECTED with the session's eventId, the locator of the element
\* (of the element under the pointer without the modifier key, of it or one
\* of its ancestors with it) and the page url, and tears the session down; a
\* click on the overlay, the banner or the current highlight sends nothing and
\* leaves the session armed.
C10_ClickCompletesOrIsIgnored ==
  [][ \A hit \in PointerHits(page), isModifierPressed \in BOOLEAN,
        sid \in ArmedSessions(page) :
        PageClickAt(hit, isModifierPressed)
        => IF hit.kind = "element"
           THEN /\ \E a \in (IF isModifierPressed THEN SelfAndAncestors(hit.el)
                             ELSE { hit.el }) :
                     page'.sessions[sid].emitted =
                       Append(page.sessions[sid].emitted,
                              ElementSelected(page.sessions[sid].eventId,
                                              getElementSelector(a), PageUrl))
                /\ Cardinality({ env \in toPanel' \ toPanel : env.sid = sid }) = 1
                /\ TornDown(page', sid)
                /\ ~Armed(page', sid)
           ELSE hit.kind \in { "overlay", "banner", "highlight" }
                => /\ page'.sessions[sid].emitted = page.sessions[sid].emitted
                   /\ toPanel' = toPanel
                   /\ toBackground' = toBackground
                   /\ Armed(page', sid)
                   /\ page' = page ]_vars

\* A session completed by a click on a page element.
C10_Witness ==
  \E sid \in DOMAIN page.sessions :
    /\ Len(page.sessions[sid].emitted) = 1
    /\ page.sessions[sid].emitted[1].type = "ELEMENT_SELECTED"
    /\ page.sessions[sid].emitted[1].eventId = page.sessions[sid].eventId
    /\ page.sessions[sid].emitted[1].element = getElementSelector(7)
    /\ TornDown(page, sid)

\* C11: whichever step ends a session (its confirming click, Escape, or the
\* cleanup of a later startElementSelection), the session then has none of
\* its three listeners registered and no overlay, banner or highlight in the
\* document, and both window flags are reset (after a click or Escape in the
\* state reached; when superseded, in the state cleanup() leaves before the
\* new session sets them); its cleanupSelection run once more changes nothing.
C11_TeardownCompleteAndIdempotent ==
  [][ \A sid \in DOMAIN page.sessions :
        ( /\ ListenersOf(page, sid) # {}
          /\ ListenersOf(page', sid) = {} )
        => /\ TornDown(page', sid)
           /\ \/ /\ Len(page'.sessions) = Len(page.sessions)
                 /\ ~page'.active
                 /\ page'.cleanupRef = 0
                 /\ cleanupSelection(page', sid) = page'
              \/ /\ Len(page'.sessions) > Len(page.sessions)
                 /\ LET p1 == cleanup(page)
                    IN  /\ TornDown(p1, sid)
                        /\ ~p1.active
                        /\ p1.cleanupRef = 0
                        /\ cleanupSelection(p1, sid) = p1
                        /\ cleanup(p1) = p1 ]_vars

\* Two sessions ended: the first superseded while armed, the second by its
\* own confirming click.
C11_Witness ==
  /\ Len(page.sessions) = 2
  /\ page.sessions[1].emitted = << >>
  /\ Len(page.sessions[2].emitted) = 1
  /\ page.sessions[2].emitted[1].type = "ELEMENT_SELECTED"
  /\ TornDown(page, 1)
  /\ TornDown(page, 2)
  /\ ~page.active
  /\ page.cleanupRef = 0
  /\ page.listeners = {}

\* --------------------------------------------------- the replay's claims
\* Strategy k of a locator finds an element when tried alone.
Finds(loc, k) ==
  /\ hasField(loc, k)
  /\ lookup(loc, k) \notin { 0, Throws }

\* The strategies of a locator up to and including the first that finds an
\* element (all of them when none does), without those whose field is absent.
ConsultedUpToFirstHit(loc) ==
  LET hit == { k \in DOMAIN Strategies : Finds(loc, k) }
      last == IF hit = {} THEN Len(Strategies)
              ELSE CHOOSE k \in hit : \A j \in hit : k <= j
  IN  { k \in 1 .. last : hasField(loc, k) }

\* C12: highlightElement tries the id, the data-hook, the selector and the
\* XPath in that order and takes the element of the first strategy that
\* finds one; it consults no strategy after that one and none whose field
\* the locator lacks.
C12_FirstStrategyWins ==
  replayed.calls > 0
  => LET loc == replayed.locator
         r == replayed.result
         hit == { k \in DOMAIN Strategies : Finds(loc, k) }
     IN  /\ hit # {}
            => \E k \in hit :
                 /\ \A j \in hit : k <= j
                 /\ r.targetElement = lookup(loc, k)
                 /\ r.tried # << >>
                 /\ r.tried[Len(r.tried)] = Strategies[k]
         /\ Range(r.tried) = { Strategies[k] : k \in ConsultedUpToFirstHit(loc) }
         /\ \A i, j \in DOMAIN r.tried :
              i < j => \E a, b \in DOMAIN Strategies :
                         /\ a < b
                         /\ r.tried[i] = Strategies[a]
                         /\ r.tried[j] = Strategies[b]

\* A locator whose data-hook, selector and XPath name three different
\* elements was resolved by its data-hook, the others not consulted.
C12_Witness ==
  /\ replayed.calls > 0
  /\ replayed.locator.id = Undefined
  /\ replayed.locator.dataHook = "card"
  /\ replayed.locator.selector = << "span" >>
  /\ replayed.result.targetElement = 4
  /\ replayed.result.tried = << "dataHook" >>

\* C13: a data-hook query, a selector or an XPath that is a syntax error
\* counts as a miss: it is logged, the exception goes no further and the next
\* strategy is tried; when every strategy misses the call appends the error
\* banner, schedules its removal and nothing else, and creates no highlight.
C13_MalformedIsAMiss ==
  /\ [] ( replayed.calls > 0
          => LET loc == replayed.locator
                 r == replayed.result
                 call == replayed.calls
             IN  /\ r.targetElement # Throws
                 /\ \A k \in DOMAIN Strategies :
                      ( /\ hasField(loc, k)
                        /\ lookup(loc, k) = Throws
                        /\ \A j \in 1 .. (k - 1) : ~Finds(loc, j) )
                      => /\ Strategies[k] \in Range(r.warned)
                         /\ \A j \in (k + 1) .. Len(Strategies) :
                              ( /\ hasField(loc, j)
                                /\ \A i \in (k + 1) .. (j - 1) : ~Finds(loc, i) )
                              => Strategies[j] \in Range(r.tried)
                 /\ (\A k \in DOMAIN Strategies : ~Finds(loc, k))
                      => /\ r.targetElement = 0
                         /\ \A tm \in page.timers :
                              tm.call = call => tm.kind = "removeError"
                         /\ Artifact("replay", -call, 0) \notin Range(page.artifacts) )
  /\ [][ \A loc \in StaleLocators \cup { captured.locator } :
           ( /\ replayed'.calls = replayed.calls + 1
             /\ replayed'.locator = loc
             /\ \A k \in DOMAIN Strategies : ~Finds(loc, k) )
           => /\ page'.artifacts # << >>
              /\ page'.artifacts[Len(page'.artifacts)]
                   = Artifact("errorBanner", -replayed'.calls, 0)
              /\ page'.timers
                   = page.timers \cup { Timer(replayed'.calls, "removeError", 3000) } ]_vars

\* The locator whose three fields are all syntax errors was replayed: three
\* warnings, the error banner up, no highlight scheduled.
C13_Witness ==
  /\ replayed.calls > 0
  /\ replayed.locator.dataHook = "say\"hi"
  /\ replayed.locator.selector = << "ul", ".", << "md:flex" >> >>
  /\ replayed.result.warned = << "dataHook", "selector", "xpath" >>
  /\ replayed.result.targetElement = 0
  /\ Artifact("errorBanner", -replayed.calls, 0) \in Range(page.artifacts)
  /\ \A tm \in page.timers : tm.call = replayed.calls => tm.kind = "removeError"

\* The elements of the page that carry the id.
WithId(id) == { e \in Elements : Dom[e].id = id }

\* C14: an element whose id is non-empty and carried by no other element of
\* the page, captured with getElementSelector and replayed on the same page
\* with highlightElement, is the element the replay resolves to.
C14_UniqueIdRoundTrip ==
  \A el \in Elements :
    ( /\ Dom[el].id # ""
      /\ WithId(Dom[el].id) = { el }
      /\ replayed.calls > 0
      /\ replayed.locator = getElementSelector(el) )
    => replayed.result.targetElement = el

\* The button with id cta was captured and replayed.
C14_Witness ==
  /\ replayed.calls > 0
  /\ captured.target = 5
  /\ replayed.locator = captured.locator
  /\ replayed.locator.id = "cta"
  /\ replayed.result.targetElement = 5

\* C15: the XPath captured for an element without an id is /html followed by
\* one tag[k] step for each element from below the document root down to the
\* element, k counting the element among its preceding siblings of the same
\* tag; evaluated on the page it was captured on it gives the element, so a
\* replay whose id, data-hook and selector strategies found nothing resolves
\* to the captured element by its XPath.
C15_XPathShapeAndFallback ==
  ( captured.target # NoTarget /\ Dom[captured.target].id = "" )
  => LET el == captured.target
         xpath == captured.locator.xpath
         chain == SelfAndAncestors(el) \ { documentElement }
         depth(a) == Cardinality(SelfAndAncestors(a)) - 1
     IN  /\ xpath[1] = "/html"
         /\ Len(xpath) = 1 + Cardinality(chain)
         /\ \A a \in chain :
              xpath[1 + depth(a)]
                = << Dom[a].tag,
                     1 + Cardinality({ s \in Elements :
                                         /\ s < a
                                         /\ Dom[s].parent = Dom[a].parent
                                         /\ Dom[s].tag = Dom[a].tag }) >>
         /\ evaluate(xpath) = el
         /\ ( /\ replayed.calls > 0
              /\ replayed.locator = captured.locator
              /\ \A k \in 1 .. 3 : ~Finds(replayed.locator, k) )
            => /\ replayed.result.targetElement = el
               /\ replayed.result.tried[Len(replayed.result.tried)] = "xpath"

\* The list whose class makes its selector a syntax error was captured and
\* replayed: the selector missed and the XPath found it.
C15_Witness ==
  /\ captured.target = 12
  /\ replayed.calls > 0
  /\ replayed.locator = captured.locator
  /\ replayed.result.tried = << "selector", "xpath" >>
  /\ replayed.result.warned = << "selector" >>
  /\ replayed.result.targetElement = 12

\* ------------------------------------------- the relay's and store's claims
\* C16: the background sends an ELEMENT_SELECTED or SELECTION_CANCELLED it is
\* called with once more, unchanged, to the panel, and sends nothing for a
\* message of another type; what it sends reaches neither the page nor the
\* background itself, so a message a session sent is in flight at most as its
\* direct copy and one relayed copy.
C16_RelayOnceNoLoop ==
  /\ [] ( /\ \A env \in toBackground : env.hop = "direct"
          /\ \A env \in toPanel :
               env.hop = "relay"
               => /\ env.msg.type \in { "ELEMENT_SELECTED", "SELECTION_CANCELLED" }
                  /\ [ env EXCEPT !.hop = "direct" ] \notin toBackground
                  /\ env.sid \in DOMAIN page.sessions
                  /\ env.n \in DOMAIN page.sessions[env.sid].emitted
                  /\ env.msg = page.sessions[env.sid].emitted[env.n] )
  /\ [][ \A env \in toBackground :
           BackgroundRelayOf(env)
           => /\ page' = page
              /\ toBackground' = toBackground \ { env }
              /\ IF env.msg.type \in { "ELEMENT_SELECTED", "SELECTION_CANCELLED" }
                 THEN /\ [ env EXCEPT !.hop = "relay" ] \notin toPanel
                      /\ toPanel' = toPanel \cup { [ env EXCEPT !.hop = "relay" ] }
                 ELSE toPanel' = toPanel ]_vars

\* A session's ELEMENT_SELECTED has been relayed and the relayed copy handled
\* or still on its way, with nothing left for the background.
C16_Witness ==
  /\ toBackground = {}
  /\ \E env \in toPanel :
       /\ env.hop = "relay"
       /\ env.msg.type = "ELEMENT_SELECTED"
       /\ [ env EXCEPT !.hop = "direct" ] \in toPanel

\* C17: selectEvent with an event id leaves selection state at (id, true),
\* selectEvent(null) and cancelSelection leave it at (null, false), whatever
\* it was; the three leave the records unchanged, and no store method changes
\* the catalog.
C17_SelectionOpsFrame ==
  /\ [] ( store.events = defaultEvents )
  /\ [][ /\ \A eventId \in EventIds \cup { Null } :
              ( /\ lastOp'.op = "selectEvent"
                /\ store' = selectEvent(store, eventId) )
              => /\ store'.selectedEventId = eventId
                 /\ store'.isSelecting = (eventId \in EventIds)
                 /\ store'.mappings = store.mappings
                 /\ store'.events = store.events
         /\ lastOp'.op = "selectEvent"
            => \E eventId \in EventIds \cup { Null } :
                 store' = selectEvent(store, eventId)
         /\ lastOp'.op = "cancelSelection"
            => /\ store'.selectedEventId = Null
               /\ store'.isSelecting = FALSE
               /\ store'.mappings = store.mappings
               /\ store'.events = store.events ]_vars

\* cancelSelection was called with records stored.
C17_Witness ==
  /\ lastOp.op = "cancelSelection"
  /\ Len(store.mappings) >= 1
  /\ store.selectedEventId = Null
  /\ ~store.isSelecting

\* The stored records with the key of an ELEMENT_SELECTED message.
RecordsOf(s, msg) ==
  { i \in DOMAIN s.mappings :
      /\ s.mappings[i].eventId = msg.eventId
      /\ s.mappings[i].url = msg.url
      /\ s.mappings[i].element.selector = msg.element.selector
      /\ s.mappings[i].element.xpath = msg.element.xpath }

\* C20: one ELEMENT_SELECTED reaches the panel twice, directly and through
\* the background, in either order and among other store updates; after each
\* delivery the store holds exactly one record of its key, and the store never
\* holds two records of one key.
C20_DoubleDeliveryOneRecord ==
  /\ [] ( \A i, j \in DOMAIN store.mappings :
            i # j => ~SameKey(store.mappings[i], store.mappings[j]) )
  /\ [][ \A env \in toPanel :
           ( /\ PanelHandleMessageOf(env)
             /\ env.msg.type = "ELEMENT_SELECTED" )
           => /\ Cardinality(RecordsOf(store', env.msg)) = 1
              /\ RecordsOf(store, env.msg) # {}
                 => store'.mappings = store.mappings ]_vars

\* Both copies of a session's ELEMENT_SELECTED have been handled and its one
\* record is stored.
C20_Witness ==
  \E sid \in DOMAIN page.sessions :
    /\ Len(page.sessions[sid].emitted) = 1
    /\ page.sessions[sid].emitted[1].type = "ELEMENT_SELECTED"
    /\ \A env \in toPanel \cup toBackground : env.sid # sid
    /\ Cardinality(RecordsOf(store, page.sessions[sid].emitted[1])) = 1

\* ------------------------------------------------- the builder's claims
\* The ancestors of el from its parent up to below body.
WidenCandidates(el) == SelfAndAncestors(el) \ { el, body, documentElement }

\* C18, as claimed: with the modifier key held the target is the nearest
\* ancestor of the hovered element, below body, that carries data-hook, or
\* has a container class, or has at least twice the hovered element's area;
\* no ancestor beyond the first that meets one of the three is returned.
C18_WidenToNearestQualifying ==
  ( /\ captured.hit.kind = "element"
    /\ captured.useModifier )
  => LET el == captured.hit.el
         qualifying ==
           { a \in WidenCandidates(el) :
               \/ Dom[a].dataHook # Null
               \/ isContainerClass(a)
               \/ Dom[a].area >= 2 * Dom[el].area }
     IN  qualifying # {}
         => /\ captured.target \in qualifying
            /\ \A a \in qualifying : a \in SelfAndAncestors(captured.target)

\* C19, as claimed: the primary selector is the tag followed by exactly one
\* of #id, [data-hook="v"], at most two class tokens joined by dots, or
\* nothing, the first that the element has.
C19_SelectorShape ==
  captured.target # NoTarget
  => LET el == captured.target
         selector == captured.locator.selector
     IN  /\ selector[1] = Dom[el].tag
         /\ IF Dom[el].id # ""
            THEN selector = << Dom[el].tag, "#", Dom[el].id >>
            ELSE IF Dom[el].dataHook # Null
            THEN selector = << Dom[el].tag, "[data-hook=", Dom[el].dataHook >>
            ELSE IF Dom[el].className # << >>
            THEN /\ Len(selector) = 3
                 /\ selector[2] = "."
                 /\ Len(selector[3]) <= 2
                 /\ \A i \in DOMAIN selector[3] :
                      selector[3][i] = Dom[el].className[i]
            ELSE selector = << Dom[el].tag >>

\* ------------------------------------------------ the page flags' claims
\* C21: in every state of the page _biElementSelectorActive is true exactly
\* when _biElementSelectorCleanup holds a function, which is then the
\* cleanupSelection of the one session with listeners; so the guard of
\* startElementSelection, which runs after cleanup(), never returns early:
\* every injected startElementSelection(eventId) creates a session armed for
\* that eventId, with its three listeners, its overlay and its banner.
C21_StartAlwaysArms ==
  /\ [] ( /\ page.active = (page.cleanupRef # 0)
          /\ page.cleanupRef # 0
             => /\ page.cleanupRef \in DOMAIN page.sessions
                /\ ListenersOf(page, page.cleanupRef) = ListenerKinds
          /\ ~cleanup(page).active )
  /\ [][ \A i \in DOMAIN tasks :
           PanelInjectStartOf(i)
           => LET sid == Len(page.sessions) + 1
              IN  /\ Len(page'.sessions) = sid
                  /\ page'.sessions[sid].eventId = tasks[i].eventId
                  /\ Armed(page', sid)
                  /\ ListenersOf(page', sid) = ListenerKinds
                  /\ page'.active
                  /\ page'.cleanupRef = sid
                  /\ Artifact("overlay", sid, 0) \in Range(page'.artifacts)
                  /\ Artifact("banner", sid, 0) \in Range(page'.artifacts) ]_vars

\* A second session was armed after the first ended by its confirming click.
C21_Witness ==
  /\ Len(page.sessions) = 2
  /\ Len(page.sessions[1].emitted) = 1
  /\ page.sessions[1].emitted[1].type = "ELEMENT_SELECTED"
  /\ Armed(page, 2)
  /\ page.active
  /\ page.cleanupRef = 2

\* C22, as claimed: the page holds at most one replay highlight (the element
\* with id bi-element-highlighter) in every state, whatever the order in
\* which highlightElement calls and their timers run.
C22_AtMostOneReplayHighlight ==
  Cardinality({ i \in DOMAIN page.artifacts :
                  page.artifacts[i].kind = "replay" }) <= 1

====
